---- MODULE Spec2Model ----
(***************************************************************************)
(* Model of app.py: the /telegram webhook handler, its command parser and   *)
(* the profile table it reads and writes through upsert_profile and         *)
(* get_profile.  Every handler is a coroutine: it runs atomically between   *)
(* two awaits, and the awaits that touch shared state (pool.acquire,        *)
(* db.fetchval, db.execute, db.fetchrow, send) are the steps of the model.  *)
(*                                                                          *)
(* Text is a sequence of lexemes; SP is one blank and CM one comma, so that *)
(* str.strip, str.split and the int()/float() conversions are computed on   *)
(* the text and can fail.  Decimal values (weight_kg) are held in tenths.   *)
(* An optional value is <<>> (None / NULL) or <<v>>.                        *)
(***************************************************************************)
EXTENDS Integers, Sequences, FiniteSets, TLC

\* ---------------------------------------------------------------- bounds
NumWorkers == 2
MaxRequests == 3
\* the metrics functions on their own: TDEE values of up to MaxTdeeSteps
\* steps of 50 kcal either side of 0, BMI values of up to MaxBmiTenths tenths
MaxTdeeSteps == 80
MaxBmiTenths == 400

\* ------------------------------------------------------ program constants
POOL_MAX_SIZE == 3

WEBHOOK_SECRET == "s3cret"

None == <<>>
Some(v) == <<v>>

SP == " "
CM == ","

Users == {1, 2}

\* ------------------------------------------------------------ str methods
RECURSIVE LStrip(_)
LStrip(s) == IF s /= <<>> /\ Head(s) = SP THEN LStrip(Tail(s)) ELSE s

RECURSIVE RStrip(_)
RStrip(s) ==
    IF s /= <<>> /\ s[Len(s)] = SP THEN RStrip(SubSeq(s, 1, Len(s) - 1)) ELSE s

\* str.strip()
Strip(s) == RStrip(LStrip(s))

\* index of the first occurrence of lexeme c in s, 0 when there is none
RECURSIVE FindFrom(_, _, _)
FindFrom(s, c, i) ==
    IF i > Len(s) THEN 0
    ELSE IF s[i] = c THEN i
    ELSE FindFrom(s, c, i + 1)

Find(s, c) == FindFrom(s, c, 1)

\* s.split(c, 1): a list of one or two strings
Split1(s, c) ==
    LET i == Find(s, c) IN
    IF i = 0 THEN <<s>>
    ELSE <<SubSeq(s, 1, i - 1), SubSeq(s, i + 1, Len(s))>>

\* s.split(c): the list of all the pieces
RECURSIVE SplitAll(_, _)
SplitAll(s, c) ==
    LET i == Find(s, c) IN
    IF i = 0 THEN <<s>>
    ELSE <<SubSeq(s, 1, i - 1)>> \o SplitAll(SubSeq(s, i + 1, Len(s)), c)

\* str.lower() and str.upper(), lexeme by lexeme
LowerLex(t) ==
    CASE t = "/EDIT" -> "/edit"
      [] t = "/BMI" -> "/bmi"
      [] t = "Weight" -> "weight"
      [] t = "M" -> "m"
      [] t = "F" -> "f"
      [] t = "X" -> "x"
      [] OTHER -> t

UpperLex(t) ==
    CASE t = "m" -> "M"
      [] t = "f" -> "F"
      [] t = "x" -> "X"
      [] OTHER -> t

Lower(s) == [i \in 1..Len(s) |-> LowerLex(s[i])]
Upper(s) == [i \in 1..Len(s) |-> UpperLex(s[i])]

\* text.startswith("/")
SlashLexemes ==
    {"/start", "/help", "/profile", "/setprofile", "/edit", "/bmi", "/cutcal",
     "/foo", "/EDIT", "/BMI"}

StartsWithSlash(s) == s /= <<>> /\ s[1] \in SlashLexemes

\* ------------------------------------------------- int() and float()
\* the lexemes int() accepts, with their values
IntLexemes == {"0", "3", "6", "22", "76", "175", "-5"}

IntValue(t) ==
    CASE t = "0" -> 0
      [] t = "3" -> 3
      [] t = "6" -> 6
      [] t = "22" -> 22
      [] t = "76" -> 76
      [] t = "175" -> 175
      [] t = "-5" -> 0 - 5

\* the lexemes float() accepts beyond those of int(), in tenths
DecLexemes == {"74.5"}

DecValue(t) ==
    CASE t = "74.5" -> 745

\* a conversion result: ok with a value, or ValueError
Ok(v) == [ok |-> TRUE, val |-> v]
ValueError == [ok |-> FALSE, val |-> 0]

\* clean_int(x) == int(str(x).strip())
clean_int(x) ==
    LET s == Strip(x) IN
    IF Len(s) = 1 /\ s[1] \in IntLexemes THEN Ok(IntValue(s[1])) ELSE ValueError

\* clean_float(x) == float(str(x).strip()), in tenths
clean_float(x) ==
    LET s == Strip(x) IN
    IF Len(s) = 1 /\ s[1] \in IntLexemes THEN Ok(10 * IntValue(s[1]))
    ELSE IF Len(s) = 1 /\ s[1] \in DecLexemes THEN Ok(DecValue(s[1]))
    ELSE ValueError

\* str(int): the decimal lexeme of an integer
StrInt(v) ==
    CASE v = 0 -> "0"
      [] v = 3 -> "3"
      [] v = 6 -> "6"
      [] v = 22 -> "22"
      [] v = 76 -> "76"
      [] v = 175 -> "175"
      [] v = 0 - 5 -> "-5"

\* str of a decimal held in tenths
StrDec(v) ==
    CASE v = 0 -> "0.0"
      [] v = 30 -> "3.0"
      [] v = 60 -> "6.0"
      [] v = 220 -> "22.0"
      [] v = 745 -> "74.5"
      [] v = 760 -> "76.0"
      [] v = 1750 -> "175.0"
      [] v = 0 - 50 -> "-5.0"

\* ------------------------------------------------------------ the profile
\* the keyword arguments of upsert_profile: an optional value per attribute
NoFields ==
    [name |-> None, sex |-> None, age |-> None, height_cm |-> None,
     weight_kg |-> None, activity |-> None]

Attributes == {"name", "sex", "age", "height_cm", "weight_kg", "activity"}

\* ---------------------------------------------------------------- parser
\* the outcome of parsing a command's remainder
Parsed(k, f) == [kind |-> k, fields |-> f]

\* /setprofile: the body of the else branch, lines 146-162 up to the upsert
ParseSetProfileAnyActivity(rest0) ==
    LET raw == SplitAll(rest0, CM)
        parts == [i \in 1..Len(raw) |-> Strip(raw[i])]
    IN  IF Len(parts) /= 6 THEN Parsed("count", NoFields)
        ELSE LET sex == Upper(parts[2])
                 age == clean_int(parts[3])
                 height_cm == clean_int(parts[4])
                 weight_kg == clean_float(parts[5])
                 activity == clean_int(parts[6])
             IN  IF ~age.ok \/ ~height_cm.ok \/ ~weight_kg.ok \/ ~activity.ok
                 THEN Parsed("invalid", NoFields)
                 ELSE IF sex \notin {<<"M">>, <<"F">>}
                 THEN Parsed("invalid", NoFields)
                 ELSE Parsed("valid",
                        [name |-> Some(parts[1]), sex |-> Some(sex),
                         age |-> Some(age.val), height_cm |-> Some(height_cm.val),
                         weight_kg |-> Some(weight_kg.val),
                         activity |-> Some(activity.val)])

ParseSetProfile(rest0) ==
    LET raw == SplitAll(rest0, CM)
        parts == [i \in 1..Len(raw) |-> Strip(raw[i])]
    IN  IF Len(parts) /= 6 THEN Parsed("count", NoFields)
        ELSE LET sex == Upper(parts[2])
                 age == clean_int(parts[3])
                 height_cm == clean_int(parts[4])
                 weight_kg == clean_float(parts[5])
                 activity == clean_int(parts[6])
             IN  IF ~age.ok \/ ~height_cm.ok \/ ~weight_kg.ok \/ ~activity.ok
                 THEN Parsed("invalid", NoFields)
                 ELSE IF sex \notin {<<"M">>, <<"F">>} \/ activity.val \notin 1..5
                 THEN Parsed("invalid", NoFields)
                 ELSE Parsed("valid",
                        [name |-> Some(parts[1]), sex |-> Some(sex),
                         age |-> Some(age.val), height_cm |-> Some(height_cm.val),
                         weight_kg |-> Some(weight_kg.val),
                         activity |-> Some(activity.val)])

\* /edit: the body of the try, lines 169-189 up to the upsert
ParseEdit(rest0) ==
    LET fv == Split1(rest0, SP) IN
    IF Len(fv) /= 2 THEN Parsed("invalid", NoFields)
    ELSE
    LET field == Strip(Lower(fv[1]))
        value == Strip(fv[2])
    IN  CASE field = <<"name">> ->
               Parsed("valid", [NoFields EXCEPT !.name = Some(value)])
          [] field = <<"sex">> ->
               IF Upper(value) \notin {<<"M">>, <<"F">>}
               THEN Parsed("invalid", NoFields)
               ELSE Parsed("valid", [NoFields EXCEPT !.sex = Some(Upper(value))])
          [] field = <<"age">> ->
               LET v == clean_int(value) IN
               IF ~v.ok THEN Parsed("invalid", NoFields)
               ELSE Parsed("valid", [NoFields EXCEPT !.age = Some(v.val)])
          [] field = <<"height">> ->
               LET v == clean_int(value) IN
               IF ~v.ok THEN Parsed("invalid", NoFields)
               ELSE Parsed("valid", [NoFields EXCEPT !.height_cm = Some(v.val)])
          [] field = <<"weight">> ->
               LET v == clean_float(value) IN
               IF ~v.ok THEN Parsed("invalid", NoFields)
               ELSE Parsed("valid", [NoFields EXCEPT !.weight_kg = Some(v.val)])
          [] field = <<"activity">> ->
               LET v == clean_int(value) IN
               IF ~v.ok \/ v.val \notin 1..5 THEN Parsed("invalid", NoFields)
               ELSE Parsed("valid", [NoFields EXCEPT !.activity = Some(v.val)])
          [] OTHER -> Parsed("unknown", NoFields)

\* --------------------------------------------------------- the database
\* user_profile is a sequence of rows in insertion order
Row(user_id, chat_id, f, updated_at) ==
    [user_id |-> user_id, chat_id |-> chat_id, name |-> f.name, sex |-> f.sex,
     age |-> f.age, height_cm |-> f.height_cm, weight_kg |-> f.weight_kg,
     activity |-> f.activity, updated_at |-> updated_at]

\* the six profile attributes of a row
FieldsOf(r) ==
    [name |-> r.name, sex |-> r.sex, age |-> r.age, height_cm |-> r.height_cm,
     weight_kg |-> r.weight_kg, activity |-> r.activity]

RowsOf(tbl, user_id) == {i \in DOMAIN tbl : tbl[i].user_id = user_id}

\* SELECT 1 FROM user_profile WHERE user_id=$1, as the truth value of `exists`
SelectExists(tbl, user_id) == RowsOf(tbl, user_id) /= {}

\* COALESCE($n, column)
Coalesce(a, b) == IF a /= None THEN a ELSE b

\* an UPDATE that sets every column to its parameter, without COALESCE
UpdateRowNoCoalesce(r, f, now) ==
    [r EXCEPT !.name = f.name, !.sex = f.sex, !.age = f.age,
              !.height_cm = f.height_cm, !.weight_kg = f.weight_kg,
              !.activity = f.activity, !.updated_at = Some(now)]

\* an UPDATE with the arguments of COALESCE swapped: a set column is kept
UpdateRowKeepOld(r, f, now) ==
    [r EXCEPT !.name = Coalesce(r.name, f.name),
              !.sex = Coalesce(r.sex, f.sex),
              !.age = Coalesce(r.age, f.age),
              !.height_cm = Coalesce(r.height_cm, f.height_cm),
              !.weight_kg = Coalesce(r.weight_kg, f.weight_kg),
              !.activity = Coalesce(r.activity, f.activity),
              !.updated_at = Some(now)]

\* an UPDATE without updated_at=now()
UpdateRowNoTimestamp(r, f, now) ==
    [r EXCEPT !.name = Coalesce(f.name, r.name),
              !.sex = Coalesce(f.sex, r.sex),
              !.age = Coalesce(f.age, r.age),
              !.height_cm = Coalesce(f.height_cm, r.height_cm),
              !.weight_kg = Coalesce(f.weight_kg, r.weight_kg),
              !.activity = Coalesce(f.activity, r.activity)]

\* the UPDATE statement of upsert_profile, lines 71-81
UpdateRow(r, f, now) ==
    [r EXCEPT !.name = Coalesce(f.name, r.name),
              !.sex = Coalesce(f.sex, r.sex),
              !.age = Coalesce(f.age, r.age),
              !.height_cm = Coalesce(f.height_cm, r.height_cm),
              !.weight_kg = Coalesce(f.weight_kg, r.weight_kg),
              !.activity = Coalesce(f.activity, r.activity),
              !.updated_at = Some(now)]

\* a replace written as DELETE then INSERT whose INSERT is missing
SqlUpdateAsDelete(tbl, user_id, f, now) ==
    SelectSeq(tbl, LAMBDA r : r.user_id /= user_id)

\* an UPDATE without its WHERE clause
SqlUpdateNoWhere(tbl, user_id, f, now) ==
    [i \in DOMAIN tbl |-> UpdateRow(tbl[i], f, now)]

SqlUpdate(tbl, user_id, f, now) ==
    [i \in DOMAIN tbl |->
        IF tbl[i].user_id = user_id THEN UpdateRow(tbl[i], f, now) ELSE tbl[i]]

\* the schema of user_profile: user_id is the primary key, and updated_at
\* defaults to now()
NoPrimaryKey(tbl, user_id) == FALSE

PrimaryKeyViolated(tbl, user_id) == RowsOf(tbl, user_id) /= {}

DefaultUpdatedAt(now) == Some(now)

\* an INSERT whose first two parameters are passed in the wrong order
InsertedRowSwapped(user_id, chat_id, f, now) ==
    Row(user_id, user_id, f, DefaultUpdatedAt(now))

\* the row the INSERT statement of upsert_profile builds, lines 83-86
InsertedRow(user_id, chat_id, f, now) ==
    Row(user_id, chat_id, f, DefaultUpdatedAt(now))

\* get_profile: the first row of the user, or None
FetchRow(tbl, user_id) ==
    IF RowsOf(tbl, user_id) = {} THEN None
    ELSE Some(tbl[CHOOSE i \in RowsOf(tbl, user_id) :
                    \A j \in RowsOf(tbl, user_id) : i <= j])

\* --------------------------------------------------------------- metrics
\* round(n / d) to the nearest integer, ties to even, for d > 0
RoundDiv(n, d) ==
    LET q == n \div d
        r == n % d
    IN  IF 2 * r < d THEN q
        ELSE IF 2 * r > d THEN q + 1
        ELSE IF q % 2 = 0 THEN q ELSE q + 1

\* bmi_value: weight_kg / (height_cm / 100) ^ 2 as an exact quotient num / den
\* (weight_kg is in tenths, so the quotient is weight_kg * 1000 / height_cm ^ 2)
bmi_value(height_cm, weight_kg) ==
    [num |-> weight_kg * 1000, den |-> height_cm * height_cm]

\* a bmi_label whose first comparison is <= instead of <
bmi_labelInclusive(b) ==
    IF 10 * b.num <= 185 * b.den THEN "Underweight"
    ELSE IF b.num < 25 * b.den THEN "Normal"
    ELSE IF b.num < 30 * b.den THEN "Overweight"
    ELSE "Obese"

\* bmi_label(b): the thresholds 18.5, 25 and 30 on the quotient (den > 0)
bmi_label(b) ==
    IF 10 * b.num < 185 * b.den THEN "Underweight"
    ELSE IF b.num < 25 * b.den THEN "Normal"
    ELSE IF b.num < 30 * b.den THEN "Overweight"
    ELSE "Obese"

\* f"{b:.1f}": the quotient in tenths
FmtBmi(b) == RoundDiv(10 * b.num, b.den)

\* mifflin_bmr, in hundredths of a kcal
mifflin_bmr(sex, age, height_cm, weight_kg) ==
    IF sex = <<"M">>
    THEN 100 * weight_kg + 625 * height_cm - 500 * age + 500
    ELSE 100 * weight_kg + 625 * height_cm - 500 * age - 16100

\* ACT_MAP.get(activity, 1.2), in thousandths
ActFactor(activity) ==
    CASE activity = 1 -> 1200
      [] activity = 2 -> 1375
      [] activity = 3 -> 1550
      [] activity = 4 -> 1725
      [] activity = 5 -> 1900
      [] OTHER -> 1200

\* tdee, in units of 10^-5 kcal
TdeeScale == 100 * 1000

tdee(sex, age, height_cm, weight_kg, activity) ==
    mifflin_bmr(sex, age, height_cm, weight_kg) * ActFactor(activity)

Max(a, b) == IF a >= b THEN a ELSE b

Min(a, b) == IF a <= b THEN a ELSE b

\* a target that takes the larger deficit
CutTargetMin(t) == Min(t - 500 * TdeeScale, t - 300 * TdeeScale)

\* cut = max(t - 500, t - 300)
CutTarget(t) == Max(t - 500 * TdeeScale, t - 300 * TdeeScale)

\* --------------------------------------------------------------- replies
\* a reply is the kind of text sent and the values formatted into it
Reply(k, b) == [kind |-> k, body |-> b]

\* f"{x}" of an optional column
FmtStr(x) == IF x = None THEN <<"None">> ELSE x[1]
FmtInt(x) == IF x = None THEN <<"None">> ELSE <<StrInt(x[1])>>
FmtDec(x) == IF x = None THEN <<"None">> ELSE <<StrDec(x[1])>>

\* the /profile text of a row, lines 135-138
RenderProfile(r) ==
    Reply("profile",
          <<FmtStr(r.name), FmtStr(r.sex), FmtInt(r.age), FmtInt(r.height_cm),
            FmtDec(r.weight_kg), FmtInt(r.activity)>>)

\* truth value of a column: None, 0, 0.0 and "" are false
TruthyNum(x) == x /= None /\ x[1] /= 0
TruthyStr(x) == x /= None /\ x[1] /= <<>>

\* the /profile branch, lines 131-139
ProfileReply(row) ==
    IF row = None THEN Reply("no_profile", <<>>) ELSE RenderProfile(row[1])

\* the /bmi branch, lines 197-202
BmiReply(row) ==
    IF row = None \/ ~TruthyNum(row[1].height_cm) \/ ~TruthyNum(row[1].weight_kg)
    THEN Reply("set_height_weight", <<>>)
    ELSE LET b == bmi_value(row[1].height_cm[1], row[1].weight_kg[1])
         IN  Reply("bmi", <<FmtBmi(b), bmi_label(b)>>)

\* the /cutcal branch, lines 205-214
CutcalReply(row) ==
    IF row = None
       \/ ~(/\ TruthyStr(row[1].sex) /\ TruthyNum(row[1].age)
            /\ TruthyNum(row[1].height_cm) /\ TruthyNum(row[1].weight_kg)
            /\ TruthyNum(row[1].activity))
    THEN Reply("complete_profile", <<>>)
    ELSE LET t == tdee(row[1].sex[1], row[1].age[1], row[1].height_cm[1],
                       row[1].weight_kg[1], row[1].activity[1])
         IN  Reply("cutcal",
                   <<RoundDiv(t, TdeeScale), RoundDiv(CutTarget(t), TdeeScale)>>)

\* ---------------------------------------------------------- the updates
\* the text of a command: its lexemes separated by one blank
RECURSIVE Words(_)
Words(ws) ==
    IF Len(ws) <= 1 THEN ws ELSE <<Head(ws), SP>> \o Words(Tail(ws))

\* "/setprofile a, b, c, ..."
RECURSIVE Csv(_)
Csv(items) ==
    IF Len(items) <= 1 THEN items ELSE <<Head(items), CM, SP>> \o Csv(Tail(items))

SetProfileText(items) == <<"/setprofile", SP>> \o Csv(items)

ValidSetProfileTexts ==
    {SetProfileText(<<"Ace", "m", "22", "175", "76", "3">>),
     SetProfileText(<<"Bea", "F", "0", "175", "74.5", "3">>)}

InvalidSetProfileTexts ==
    {<<"/setprofile">>,
     SetProfileText(<<"Ace", "M", "22", "175", "76">>),
     SetProfileText(<<"Ace", "X", "22", "175", "76", "3">>),
     SetProfileText(<<"Ace", "M", "22", "175", "76", "6">>),
     SetProfileText(<<"Ace", "M", "abc", "175", "76", "3">>)}

ValidEditTexts ==
    {Words(<<"/edit", "weight", "74.5">>),
     Words(<<"/EDIT", "Weight", "0">>),
     Words(<<"/edit", "age", "22">>),
     Words(<<"/edit", "height", "-5">>),
     Words(<<"/edit", "name", "Bea">>),
     Words(<<"/edit", "sex", "f">>),
     Words(<<"/edit", "activity", "3">>)}

InvalidEditTexts ==
    {<<"/edit">>,
     Words(<<"/edit", "weight">>),
     Words(<<"/edit", "sex", "x">>),
     Words(<<"/edit", "age", "74.5">>),
     Words(<<"/edit", "activity", "6">>)}

UnknownFieldEditTexts == {Words(<<"/edit", "colour", "blue">>)}

OtherTexts ==
    {<<"hello">>, <<>>, <<"/start">>, <<"/help">>, <<"/profile">>, <<"/BMI">>,
     <<"/cutcal">>, <<"/foo">>}

Texts ==
    ValidSetProfileTexts \cup InvalidSetProfileTexts \cup ValidEditTexts
        \cup InvalidEditTexts \cup UnknownFieldEditTexts \cup OtherTexts

\* the chat a user writes from
ChatOf(user_id) == user_id + 10

\* a webhook call: the secret header and the JSON body
Update(secret, has_message, user_id, text) ==
    [secret |-> secret, has_message |-> has_message, from |-> user_id,
     chat |-> ChatOf(user_id), text |-> text]

\* the second user sends a few of the texts only
FewTexts ==
    {SetProfileText(<<"Ace", "m", "22", "175", "76", "3">>),
     Words(<<"/edit", "name", "Bea">>), <<"/profile">>, <<"/cutcal">>}

Updates ==
    {Update(WEBHOOK_SECRET, TRUE, 1, t) : t \in Texts}
        \cup {Update(WEBHOOK_SECRET, TRUE, 2, t) : t \in FewTexts}
        \cup {Update(WEBHOOK_SECRET, FALSE, 0, <<>>)}
        \cup {Update("wrong", TRUE, 1, Words(<<"/edit", "name", "Bea">>))}

\* ------------------------------------------------------------- the state
VARIABLES
    table,      \* user_profile: the sequence of its rows
    clock,      \* the database clock behind now()
    slot,       \* per worker: the /telegram call it runs, with its locals
    nreq,       \* webhook calls received so far
    lastSet,    \* per user: the text of the /setprofile whose write is the
                \* last one applied to the user's row, or None
    calc        \* a call of a metrics function on its own: the function, its
                \* argument and, once it has returned, its result

vars == <<table, clock, slot, nreq, lastSet, calc>>

\* no metrics function is being called on its own
NoCalc == [op |-> "none", arg |-> 0, res |-> None]

Workers == 1..NumWorkers

\* a worker that runs nothing: what is left of its last call is the chat of
\* the message, the message sent to the notifier and the HTTP status
Rest(pc, chat_id, sent, status) ==
    [pc |-> pc, user_id |-> 0, chat_id |-> chat_id, text |-> <<>>, cmd |-> <<>>,
     rest |-> <<>>, fields |-> NoFields, conn |-> FALSE, exists |-> FALSE,
     wrote |-> "no", row |-> None, out |-> None, sent |-> sent,
     status |-> status, secret |-> ""]

Idle == Rest("idle", 0, None, 0)

\* return PlainTextResponse(...): the call is over and its connection released
Done(chat_id, sent, status) == Rest("done", chat_id, sent, status)

Init ==
    /\ table = <<>>
    /\ clock = 0
    /\ slot = [w \in Workers |-> Idle]
    /\ nreq = 0
    /\ lastSet = [u \in Users |-> None]
    /\ calc = NoCalc

\* lines 109-124: the call from the JSON body up to pool.acquire()
OnMessage(upd) ==
    IF ~upd.has_message THEN [Done(0, None, 200) EXCEPT !.secret = upd.secret]
    ELSE
    LET text == Strip(upd.text)
        started == [Idle EXCEPT !.user_id = upd.from, !.chat_id = upd.chat,
                                !.text = text, !.secret = upd.secret]
    IN  IF ~StartsWithSlash(text)
        THEN [started EXCEPT !.pc = "send", !.out = Some(Reply("use_start", <<>>))]
        ELSE LET cr == Split1(text, SP) IN
             [started EXCEPT !.pc = "acquire", !.cmd = Lower(cr[1]),
                             !.rest = Tail(cr)]

\* a handler without the check of the secret header
OnUpdateUnchecked(upd) == OnMessage(upd)

\* lines 106-124: the check of the secret header, then the call up to
\* pool.acquire()
OnUpdate(upd) ==
    IF WEBHOOK_SECRET /= "" /\ upd.secret /= WEBHOOK_SECRET
    THEN [Done(0, None, 401) EXCEPT !.secret = upd.secret]
    ELSE OnMessage(upd)

Receive(w, upd) ==
    /\ slot[w].pc \in {"idle", "done"}
    /\ nreq < MaxRequests
    /\ nreq' = nreq + 1
    /\ slot' = [slot EXCEPT ![w] = OnUpdate(upd)]
    /\ UNCHANGED <<table, clock, lastSet, calc>>

Sending(s, kind) == [s EXCEPT !.pc = "send", !.out = Some(Reply(kind, <<>>))]

\* a dispatch whose /profile branch creates the row it does not find: it
\* calls upsert_profile with no fields
DispatchProfileUpserts(s) ==
    CASE s.cmd \in {<<"/start">>, <<"/help">>} -> Sending(s, "help")
      [] s.cmd = <<"/profile">> -> [s EXCEPT !.pc = "fetchval"]
      [] s.cmd \in {<<"/bmi">>, <<"/cutcal">>} -> [s EXCEPT !.pc = "fetchrow"]
      [] s.cmd = <<"/setprofile">> ->
            IF s.rest = <<>> THEN Sending(s, "setprofile_format")
            ELSE LET p == ParseSetProfile(s.rest[1]) IN
                 CASE p.kind = "count" -> Sending(s, "six_items")
                   [] p.kind = "invalid" -> Sending(s, "setprofile_example")
                   [] OTHER -> [s EXCEPT !.pc = "fetchval", !.fields = p.fields]
      [] s.cmd = <<"/edit">> ->
            IF s.rest = <<>> THEN Sending(s, "edit_format")
            ELSE LET p == ParseEdit(s.rest[1]) IN
                 CASE p.kind = "invalid" -> Sending(s, "edit_example")
                   [] p.kind = "unknown" ->
                        [Done(s.chat_id, None, 200) EXCEPT !.secret = s.secret]
                   [] OTHER -> [s EXCEPT !.pc = "fetchval", !.fields = p.fields]
      [] OTHER -> Sending(s, "unknown_command")

\* lines 126-217: the dispatch on cmd, up to the first database call or send
Dispatch(s) ==
    CASE s.cmd \in {<<"/start">>, <<"/help">>} -> Sending(s, "help")
      [] s.cmd \in {<<"/profile">>, <<"/bmi">>, <<"/cutcal">>} ->
            [s EXCEPT !.pc = "fetchrow"]
      [] s.cmd = <<"/setprofile">> ->
            IF s.rest = <<>> THEN Sending(s, "setprofile_format")
            ELSE LET p == ParseSetProfile(s.rest[1]) IN
                 CASE p.kind = "count" -> Sending(s, "six_items")
                   [] p.kind = "invalid" -> Sending(s, "setprofile_example")
                   [] OTHER -> [s EXCEPT !.pc = "fetchval", !.fields = p.fields]
      [] s.cmd = <<"/edit">> ->
            IF s.rest = <<>> THEN Sending(s, "edit_format")
            ELSE LET p == ParseEdit(s.rest[1]) IN
                 CASE p.kind = "invalid" -> Sending(s, "edit_example")
                   [] p.kind = "unknown" ->
                        [Done(s.chat_id, None, 200) EXCEPT !.secret = s.secret]
                   [] OTHER -> [s EXCEPT !.pc = "fetchval", !.fields = p.fields]
      [] OTHER -> Sending(s, "unknown_command")

\* async with pool.acquire() as db: waits while the pool has no free connection
Acquire(w) ==
    /\ slot[w].pc = "acquire"
    /\ Cardinality({v \in Workers : slot[v].conn}) < POOL_MAX_SIZE
    /\ slot' = [slot EXCEPT ![w] = Dispatch([slot[w] EXCEPT !.conn = TRUE])]
    /\ UNCHANGED <<table, clock, nreq, lastSet, calc>>

\* upsert_profile, line 69: exists = await db.fetchval(...)
FetchVal(w) ==
    /\ slot[w].pc = "fetchval"
    /\ slot' = [slot EXCEPT ![w] = [@ EXCEPT !.pc = "execute",
                    !.exists = SelectExists(table, slot[w].user_id)]]
    /\ UNCHANGED <<table, clock, nreq, lastSet, calc>>

\* the reply after the upsert: the confirmation, or the except branch's example
Confirmation(cmd) == IF cmd = <<"/setprofile">> THEN "saved" ELSE "updated"
\* an except branch that sends the confirmation all the same
ExceptedConfirms(cmd) == Confirmation(cmd)

Excepted(cmd) ==
    IF cmd = <<"/setprofile">> THEN "setprofile_example" ELSE "edit_example"

\* upsert_profile, lines 70-86: the UPDATE or the INSERT, and what the caller
\* does with its outcome (lines 159-162 and 191-194)
Execute(w) ==
    LET s == slot[w]
        now == clock + 1
        new == InsertedRow(s.user_id, s.chat_id, s.fields, now)
        failed == ~s.exists /\ PrimaryKeyViolated(table, new.user_id)
    IN  /\ s.pc = "execute"
        /\ clock' = now
        /\ table' = IF s.exists THEN SqlUpdate(table, s.user_id, s.fields, now)
                    ELSE IF failed THEN table
                    ELSE Append(table, new)
        /\ slot' = [slot EXCEPT ![w] = [s EXCEPT
                        !.pc = "send",
                        !.wrote = IF s.exists THEN "updated"
                                  ELSE IF failed THEN "failed" ELSE "inserted",
                        !.out = Some(Reply(IF failed THEN Excepted(s.cmd)
                                           ELSE Confirmation(s.cmd), <<>>))]]
        /\ lastSet' = [lastSet EXCEPT ![s.user_id] =
                          IF failed THEN @
                          ELSE IF s.cmd = <<"/setprofile">> THEN Some(s.text)
                          ELSE None]
        /\ UNCHANGED <<nreq, calc>>

\* the reply of /profile, /bmi and /cutcal to the row read
Computed(cmd, row) ==
    CASE cmd = <<"/profile">> -> ProfileReply(row)
      [] cmd = <<"/bmi">> -> BmiReply(row)
      [] OTHER -> CutcalReply(row)

\* row = await get_profile(db, user_id), and the reply built from it
FetchRowStep(w) ==
    LET s == slot[w]
        row == FetchRow(table, s.user_id)
    IN  /\ s.pc = "fetchrow"
        /\ slot' = [slot EXCEPT ![w] = [s EXCEPT !.pc = "send", !.row = row,
                        !.out = Some(Computed(s.cmd, row))]]
        /\ UNCHANGED <<table, clock, nreq, lastSet, calc>>

\* await send(chat_id, text), the last statement of every branch that has one
Send(w) ==
    /\ slot[w].pc = "send"
    /\ slot' = [slot EXCEPT ![w] =
                    [Done(slot[w].chat_id,
                          Some([chat_id |-> slot[w].chat_id,
                                msg |-> slot[w].out[1]]),
                          200) EXCEPT !.secret = slot[w].secret]]
    /\ UNCHANGED <<table, clock, nreq, lastSet, calc>>

Next ==
    \/ \E w \in Workers, upd \in Updates : Receive(w, upd)
    \/ \E w \in Workers : Acquire(w)
    \/ \E w \in Workers : FetchVal(w)
    \/ \E w \in Workers : Execute(w)
    \/ \E w \in Workers : FetchRowStep(w)
    \/ \E w \in Workers : Send(w)

Spec == Init /\ [][Next]_vars

\* ------------------------------------------- the metrics functions alone
\* TDEE values, in units of 10^-5 kcal: a grid of 50 kcal steps, negative
\* values included, and the TDEE of a stored profile
TdeeInputs ==
    {k * 50 * TdeeScale : k \in (0 - MaxTdeeSteps)..MaxTdeeSteps}
        \cup {tdee(<<"M">>, 22, 175, 760, 3), tdee(<<"F">>, 22, 175, 745, 3)}

\* BMI values as quotients: every tenth up to the bound, and the hundredths
\* next to the thresholds
BmiInputs ==
    {[num |-> k, den |-> 10] : k \in 0..MaxBmiTenths}
        \cup {[num |-> k, den |-> 100] :
                k \in {1849, 1850, 1851, 2499, 2500, 2501, 2999, 3000, 3001}}
        \cup {bmi_value(175, 760)}

InitPure ==
    /\ table = <<>>
    /\ clock = 0
    /\ slot = [w \in Workers |-> Idle]
    /\ nreq = 0
    /\ lastSet = [u \in Users |-> None]
    /\ calc \in {[op |-> "cut", arg |-> t, res |-> None] : t \in TdeeInputs}
                \cup {[op |-> "label", arg |-> b, res |-> None] : b \in BmiInputs}

\* cut = max(t - 500, t - 300), line 210
ApplyCutTarget ==
    /\ calc.op = "cut" /\ calc.res = None
    /\ calc' = [calc EXCEPT !.res = Some(CutTarget(calc.arg))]
    /\ UNCHANGED <<table, clock, slot, nreq, lastSet>>

\* bmi_label(b), lines 46-50
ApplyBmiLabel ==
    /\ calc.op = "label" /\ calc.res = None
    /\ calc' = [calc EXCEPT !.res = Some(bmi_label(calc.arg))]
    /\ UNCHANGED <<table, clock, slot, nreq, lastSet>>

NextPure == ApplyCutTarget \/ ApplyBmiLabel

SpecPure == InitPure /\ [][NextPure]_vars

\* ------------------------------------------------------------ properties
\* the row of a user, or None
RowOf(tbl, user_id) == FetchRow(tbl, user_id)

\* worker w's upsert_profile has returned and the call is about to send
Returned(w) == slot[w].pc = "send" /\ slot[w].wrote /= "no"

\* the step in which worker w runs the statement of its upsert
ExecuteStep(w) == slot[w].pc = "execute" /\ slot'[w].pc = "send"

\* the step in which worker w reads the row for /profile, /bmi or /cutcal
FetchRowStepOf(w) == slot[w].pc = "fetchrow" /\ slot'[w].pc = "send"

\* what each valid /edit text asks for: the attribute and its new value
ExpectedEdit(text) ==
    CASE text = Words(<<"/edit", "weight", "74.5">>) ->
            [attr |-> "weight_kg", val |-> Some(745)]
      [] text = Words(<<"/EDIT", "Weight", "0">>) ->
            [attr |-> "weight_kg", val |-> Some(0)]
      [] text = Words(<<"/edit", "age", "22">>) ->
            [attr |-> "age", val |-> Some(22)]
      [] text = Words(<<"/edit", "height", "-5">>) ->
            [attr |-> "height_cm", val |-> Some(0 - 5)]
      [] text = Words(<<"/edit", "name", "Bea">>) ->
            [attr |-> "name", val |-> Some(<<"Bea">>)]
      [] text = Words(<<"/edit", "sex", "f">>) ->
            [attr |-> "sex", val |-> Some(<<"F">>)]
      [] text = Words(<<"/edit", "activity", "3">>) ->
            [attr |-> "activity", val |-> Some(3)]

\* what /profile shows after each valid /setprofile text
ExpectedProfile(text) ==
    CASE text = SetProfileText(<<"Ace", "m", "22", "175", "76", "3">>) ->
            <<<<"Ace">>, <<"M">>, <<"22">>, <<"175">>, <<"76.0">>, <<"3">>>>
      [] text = SetProfileText(<<"Bea", "F", "0", "175", "74.5", "3">>) ->
            <<<<"Bea">>, <<"F">>, <<"0">>, <<"175">>, <<"74.5">>, <<"3">>>>

\* C1: when two upserts for the same user are in flight together and both
\* have returned, neither has failed and every field either of them supplied
\* is in the user's row with a value one of them supplied.
C1_ConcurrentUpsertsBothApplied ==
    \A p, q \in Workers :
        (/\ p /= q /\ Returned(p) /\ Returned(q)
         /\ slot[p].user_id = slot[q].user_id)
        => /\ slot[p].wrote /= "failed"
           /\ slot[q].wrote /= "failed"
           /\ RowOf(table, slot[p].user_id) /= None
           /\ \A a \in Attributes :
                (slot[p].fields[a] /= None \/ slot[q].fields[a] /= None)
                => FieldsOf(RowOf(table, slot[p].user_id)[1])[a]
                     \in ({slot[p].fields[a], slot[q].fields[a]} \ {None})

\* C2: the profile table never holds two rows with the same user_id.
C2_OneRowPerUser ==
    \A i, j \in DOMAIN table : table[i].user_id = table[j].user_id => i = j

\* C2 witness: two calls of one user both took the INSERT path, one row stands
C2_Witness ==
    \E p, q \in Workers :
        /\ Returned(p) /\ Returned(q)
        /\ slot[p].user_id = slot[q].user_id
        /\ slot[p].wrote = "inserted" /\ slot[q].wrote = "failed"
        /\ Cardinality(RowsOf(table, slot[p].user_id)) = 1

\* C3: the statement of a valid /edit, run on a user who has a row, leaves
\* every attribute but the edited one as it was, and when the edit found the
\* row (the UPDATE path) the edited attribute holds the supplied value.
C3_EditChangesOnlyItsField ==
    [][\A w \in Workers :
          (/\ ExecuteStep(w)
           /\ slot[w].text \in ValidEditTexts
           /\ RowOf(table, slot[w].user_id) /= None)
          => LET e == ExpectedEdit(slot[w].text)
                 before == FieldsOf(RowOf(table, slot[w].user_id)[1])
                 after == FieldsOf(RowOf(table', slot[w].user_id)[1])
             IN  /\ \A a \in Attributes \ {e.attr} : after[a] = before[a]
                 /\ slot[w].exists => after[e.attr] = e.val]_vars

\* C3 witness: /edit weight 74.5 has updated a row whose other attributes are
\* set
C3_Witness ==
    \E w \in Workers :
        /\ Returned(w) /\ slot[w].wrote = "updated"
        /\ slot[w].text = Words(<<"/edit", "weight", "74.5">>)
        /\ LET r == RowOf(table, slot[w].user_id)[1] IN
             /\ r.weight_kg = Some(745)
             /\ r.name = Some(<<"Ace">>) /\ r.age = Some(22)
             /\ r.height_cm = Some(175) /\ r.activity = Some(3)

\* C4: when /profile reads the row of a user whose last applied write is a
\* valid /setprofile, it renders the six values of that /setprofile.
C4_SetProfileThenProfile ==
    [][\A w \in Workers :
          (/\ FetchRowStepOf(w)
           /\ slot[w].cmd = <<"/profile">>
           /\ lastSet[slot[w].user_id] /= None)
          => slot'[w].out =
               Some(Reply("profile",
                          ExpectedProfile(lastSet[slot[w].user_id][1])))]_vars

\* C4 witness: /profile is about to send the values of a /setprofile that
\* overwrote an existing row
C4_Witness ==
    \E w \in Workers :
        /\ slot[w].pc = "send" /\ slot[w].cmd = <<"/profile">>
        /\ lastSet[slot[w].user_id]
             = Some(SetProfileText(<<"Bea", "F", "0", "175", "74.5", "3">>))
        /\ slot[w].out =
             Some(Reply("profile",
                        <<<<"Bea">>, <<"F">>, <<"0">>, <<"175">>, <<"74.5">>,
                          <<"3">>>>))
        /\ clock >= 2

\* the texts the parser must reject
InvalidTexts ==
    InvalidSetProfileTexts \cup InvalidEditTexts \cup UnknownFieldEditTexts

\* C5: no step of a call whose text is an invalid /setprofile or /edit
\* changes the profile table.
C5_InvalidLeavesTable ==
    [][\A w \in Workers :
          (slot'[w] /= slot[w]
           /\ (slot[w].text \in InvalidTexts \/ slot'[w].text \in InvalidTexts))
          => table' = table]_vars

\* C5 witness: an invalid command is being answered while the table has a row
C5_Witness ==
    \E w \in Workers :
        /\ slot[w].pc = "send" /\ slot[w].text \in InvalidTexts
        /\ slot[w].out = Some(Reply("setprofile_example", <<>>))
        /\ table /= <<>>

\* C6: a call that carried a message ends with a message sent to the chat
\* the message came from.
C6_EveryMessageAnswered ==
    \A w \in Workers :
        (slot[w].pc = "done" /\ slot[w].chat_id /= 0)
        => /\ slot[w].sent /= None
           /\ slot[w].sent[1].chat_id = slot[w].chat_id

\* C7: in every stored row sex is M or F, activity is in 1..5 and age,
\* height_cm and weight_kg are positive, whenever present.
C7_StoredValuesInRange ==
    \A i \in DOMAIN table :
        LET r == table[i] IN
        /\ r.sex /= None => r.sex[1] \in {<<"M">>, <<"F">>}
        /\ r.activity /= None => r.activity[1] \in 1..5
        /\ r.age /= None => r.age[1] > 0
        /\ r.height_cm /= None => r.height_cm[1] > 0
        /\ r.weight_kg /= None => r.weight_kg[1] > 0

\* the five attributes /cutcal needs are present in the row read
CutcalFieldsPresent(row) ==
    /\ row /= None
    /\ row[1].sex /= None /\ row[1].age /= None /\ row[1].height_cm /= None
    /\ row[1].weight_kg /= None /\ row[1].activity /= None

\* C8: /cutcal answers with the TDEE and the target exactly when the row it
\* read exists and has sex, age, height_cm, weight_kg and activity, and with
\* the complete-your-profile guidance otherwise.
C8_CutcalIffFieldsPresent ==
    \A w \in Workers :
        (slot[w].pc = "send" /\ slot[w].cmd = <<"/cutcal">>)
        => slot[w].out[1].kind =
             IF CutcalFieldsPresent(slot[w].row) THEN "cutcal"
             ELSE "complete_profile"

\* C9: /bmi answers with the BMI and its category exactly when the row it
\* read exists and has height_cm and weight_kg, and with the guidance
\* otherwise.
C9_BmiIffFieldsPresent ==
    \A w \in Workers :
        (slot[w].pc = "send" /\ slot[w].cmd = <<"/bmi">>)
        => slot[w].out[1].kind =
             IF /\ slot[w].row /= None
                /\ slot[w].row[1].height_cm /= None
                /\ slot[w].row[1].weight_kg /= None
             THEN "bmi" ELSE "set_height_weight"

\* C10: the statement of a valid /edit, run for a user who has no row,
\* creates the user's row with the caller's chat_id, the edited attribute
\* set to the supplied value and every other attribute NULL.
C10_EditCreatesRow ==
    [][\A w \in Workers :
          (/\ ExecuteStep(w)
           /\ slot[w].text \in ValidEditTexts
           /\ RowOf(table, slot[w].user_id) = None)
          => /\ RowOf(table', slot[w].user_id) /= None
             /\ LET e == ExpectedEdit(slot[w].text)
                    r == RowOf(table', slot[w].user_id)[1]
                IN  /\ r.user_id = slot[w].user_id
                    /\ r.chat_id = slot[w].chat_id
                    /\ FieldsOf(r)[e.attr] = e.val
                    /\ \A a \in Attributes \ {e.attr} : FieldsOf(r)[a] = None]_vars

\* C10 witness: /edit sex f has created the row of a user who had none
C10_Witness ==
    \E w \in Workers :
        /\ Returned(w) /\ slot[w].wrote = "inserted"
        /\ slot[w].text = Words(<<"/edit", "sex", "f">>)
        /\ RowOf(table, slot[w].user_id)
             = Some(Row(slot[w].user_id, ChatOf(slot[w].user_id),
                        [NoFields EXCEPT !.sex = Some(<<"F">>)], Some(clock)))

IsConfirmation(kind) == kind \in {"saved", "updated"}

\* C12: a call gets its confirmation ready only in the step that applies its
\* write to the user's row, never after a failed write, and sends it only
\* when its write was applied and the row is in the table.
C12_ConfirmationAfterWrite ==
    [][\A w \in Workers :
          /\ (/\ slot'[w].out /= None
              /\ IsConfirmation(slot'[w].out[1].kind)
              /\ slot[w].out = None)
             => /\ ExecuteStep(w)
                /\ slot'[w].wrote \in {"inserted", "updated"}
                /\ RowOf(table', slot[w].user_id) /= None
                /\ \A a \in Attributes :
                     slot[w].fields[a] /= None
                     => FieldsOf(RowOf(table', slot[w].user_id)[1])[a]
                          = slot[w].fields[a]
          /\ slot'[w].wrote = "failed"
             => ~IsConfirmation(slot'[w].out[1].kind)
          /\ (/\ slot[w].pc = "send" /\ slot'[w].pc = "done"
              /\ IsConfirmation(slot'[w].sent[1].msg.kind))
             => /\ slot[w].wrote \in {"inserted", "updated"}
                /\ RowOf(table, slot[w].user_id) /= None]_vars

\* C12 witness: one call is about to send Saved with its row in the table
\* while another, whose INSERT failed, is about to send the example
C12_Witness ==
    \E p, q \in Workers :
        /\ Returned(p) /\ slot[p].wrote = "inserted"
        /\ slot[p].out = Some(Reply("saved", <<>>))
        /\ RowOf(table, slot[p].user_id) /= None
        /\ Returned(q) /\ slot[q].wrote = "failed"
        /\ slot[q].out = Some(Reply("setprofile_example", <<>>))

\* C13: a user who has a row in one state has a row in the next.
C13_ProfileNeverRemoved ==
    [][\A u \in Users : SelectExists(table, u) => SelectExists(table', u)]_vars

\* C13 witness: the third statement run on the table is an UPDATE, and the
\* user's row is still there
C13_Witness ==
    \E w \in Workers :
        /\ Returned(w) /\ slot[w].wrote = "updated"
        /\ clock = 3
        /\ SelectExists(table, slot[w].user_id)

\* C14: for every TDEE value t the target max(t - 500, t - 300) is t - 300.
C14_CutTargetIsMinus300 ==
    (calc.op = "cut" /\ calc.res /= None)
    => calc.res[1] = calc.arg - 300 * TdeeScale

\* C14 witness: the target of the TDEE of a stored profile (2710.56 kcal)
C14_Witness ==
    /\ calc.op = "cut" /\ calc.res /= None
    /\ calc.arg = 271056250
    /\ calc.res[1] = 241056250

\* b < x / 10 and b >= x / 10 for a quotient b
Below(b, x) == 10 * b.num < x * b.den
AtLeast(b, x) == ~Below(b, x)

\* C15: bmi_label gives Underweight exactly below 18.5, Normal exactly from
\* 18.5 up to but not 25, Overweight exactly from 25 up to but not 30, Obese
\* exactly from 30 on; the six sample values get the labels of the claim.
C15_BmiLabelIntervals ==
    (calc.op = "label" /\ calc.res /= None)
    => LET b == calc.arg
           l == calc.res[1]
       IN  /\ l = "Underweight" <=> Below(b, 185)
           /\ l = "Normal" <=> (AtLeast(b, 185) /\ Below(b, 250))
           /\ l = "Overweight" <=> (AtLeast(b, 250) /\ Below(b, 300))
           /\ l = "Obese" <=> AtLeast(b, 300)
           /\ b = [num |-> 184, den |-> 10] => l = "Underweight"
           /\ b = [num |-> 185, den |-> 10] => l = "Normal"
           /\ b = [num |-> 249, den |-> 10] => l = "Normal"
           /\ b = [num |-> 250, den |-> 10] => l = "Overweight"
           /\ b = [num |-> 299, den |-> 10] => l = "Overweight"
           /\ b = [num |-> 300, den |-> 10] => l = "Obese"

\* C15 witness: 18.5 itself is labelled Normal
C15_Witness ==
    /\ calc.op = "label"
    /\ calc.arg = [num |-> 185, den |-> 10]
    /\ calc.res = Some("Normal")

\* a call whose secret header does not match the configured secret
Unauthorized(s) ==
    WEBHOOK_SECRET /= "" /\ s.pc /= "idle" /\ s.secret /= WEBHOOK_SECRET

\* C16: a call whose secret header does not match the configured secret is
\* over at once with status 401: it holds no connection, has read no row,
\* run no statement and sent nothing, and its step leaves the table as it was.
C16_UnauthorizedDoesNothing ==
    [][\A w \in Workers :
          Unauthorized(slot'[w])
          => /\ slot'[w].pc = "done" /\ slot'[w].status = 401
             /\ slot'[w].sent = None /\ slot'[w].out = None
             /\ ~slot'[w].conn /\ slot'[w].row = None /\ slot'[w].wrote = "no"
             /\ slot'[w] /= slot[w] => table' = table]_vars

\* C16 witness: a call with a wrong secret was refused while the table has a
\* row
C16_Witness ==
    \E w \in Workers :
        /\ slot[w].secret = "wrong" /\ slot[w].status = 401
        /\ slot[w].pc = "done" /\ slot[w].sent = None
        /\ table /= <<>>

\* C17: a step of a call from one user leaves the row of every other user, or
\* its absence, as it was.
C17_OtherUsersUntouched ==
    [][\A w \in Workers :
          slot'[w] /= slot[w]
          => \A u \in Users \ {slot[w].user_id} :
                RowOf(table', u) = RowOf(table, u)]_vars

\* C17 witness: user 1's UPDATE has run while user 2 has a row, which still
\* holds what user 2's /setprofile stored
C17_Witness ==
    \E w \in Workers :
        /\ Returned(w) /\ slot[w].wrote = "updated" /\ slot[w].user_id = 1
        /\ RowOf(table, 2) /= None
        /\ RowOf(table, 2)[1].name = Some(<<"Ace">>)
        /\ RowOf(table, 1)[1].name /= Some(<<"Ace">>)

\* the text of the call a step of worker w belongs to
StepText(w) ==
    IF slot[w].pc \in {"idle", "done"} THEN slot'[w].text ELSE slot[w].text

\* the texts that are neither /setprofile nor /edit
ReadOnlyTexts ==
    {<<"hello">>, <<>>, <<"/start">>, <<"/help">>, <<"/profile">>, <<"/BMI">>,
     <<"/cutcal">>, <<"/foo">>}

\* C18: no step of a call with /start, /help, /profile, /bmi, /cutcal, an
\* unknown command or a text that is no command changes the table, and a
\* step that changes the table is the statement of a valid /setprofile or a
\* valid /edit.
C18_OnlyValidWritesChangeTable ==
    [][/\ \A w \in Workers :
            (slot'[w] /= slot[w] /\ StepText(w) \in ReadOnlyTexts)
            => table' = table
       /\ table' /= table
          => \E w \in Workers :
                /\ ExecuteStep(w)
                /\ slot[w].text \in ValidSetProfileTexts \cup ValidEditTexts]_vars

\* C18 witness: /profile has read a row and is about to send it, the table
\* being what the one write before it made it
C18_Witness ==
    \E w \in Workers :
        /\ slot[w].pc = "send" /\ slot[w].text = <<"/profile">>
        /\ slot[w].row /= None
        /\ table = <<slot[w].row[1]>>
        /\ clock = 1

====
